---- MODULE Spec2Model ----
(***************************************************************************)
(* A model of src/src/parser/ply/main.py: the command-line script that     *)
(* parses a model-description file with mdl.parseFile and prints the       *)
(* result as JSON, followed by a pprint rendering in debug mode.           *)
(*                                                                         *)
(* One action per statement of the script.  Python values are tagged       *)
(* records [t |-> type, v |-> payload]; a dict is the sequence of its      *)
(* <<key, value>> items in insertion order.  Text written to a stream is a *)
(* sequence of tokens, produced by Dumps (json.dumps) and PFormat          *)
(* (pprint) and read back by Loads.  Line numbers are those of the first   *)
(* line of the statement in main.py.                                       *)
(*                                                                         *)
(* Assumed of the environment: dicts keep insertion order (Python 3.7 and  *)
(* later), mdl.parseFile is deterministic and returns rather than raises,  *)
(* and no string needs escaping in either rendering.                       *)
(***************************************************************************)
EXTENDS Integers, Sequences, FiniteSets, TLC

VARIABLES argv, mdlResult, pc, bound, mdl_file, parsed, commands, symbols,
          wrapper, stdout, stderr, status, calls, lines, run, prev

vars == <<argv, mdlResult, pc, bound, mdl_file, parsed, commands, symbols,
          wrapper, stdout, stderr, status, calls, lines, run, prev>>

\* The per-process part of the state: everything but the command line, the
\* file on disk (through what the parser makes of it) and the run counter.
proc == <<pc, bound, mdl_file, parsed, commands, symbols, wrapper, stdout,
          stderr, status, calls, lines>>

(***************************************************************************)
(* Bounds of the model.                                                    *)
(***************************************************************************)
MaxCmds == 2

(***************************************************************************)
(* Python values.                                                          *)
(***************************************************************************)
PyInt(s) == [t |-> "int", v |-> s]
PyStr(s) == [t |-> "str", v |-> s]
PyObject == [t |-> "object", v |-> "o"]
PyList(s) == [t |-> "list", v |-> s]
PyDict(items) == [t |-> "dict", v |-> items]
PyTuple(s) == [t |-> "tuple", v |-> s]
PyNone == [t |-> "None", v |-> <<>>]

\* Equality of two Python values, the type compared first.
PyEq(x, y) == x.t = y.t /\ x.v = y.v

\* bool(x) for the values mdl.parseFile returns: None and () are falsy, a
\* non-empty tuple is truthy.
Truthy(x) == x.t = "tuple" /\ Len(x.v) > 0

(***************************************************************************)
(* The parser, mdl.parseFile: a (commands, symbols) pair, or a falsy value *)
(* when it fails.  Commands are a list, symbols a dict keyed by name.      *)
(***************************************************************************)
Names == {"x", "y"}

\* The opaque command and symbol values a parser that keeps its contract
\* produces: JSON-serializable ones.
ContractValues == {PyInt("5"), PyStr("5"), PyStr("x")}

\* The values of a parser that leaks a value json cannot encode.
LeakValues == ContractValues \cup {PyObject}

SeqsUpTo(S, n) == UNION {[1..k -> S] : k \in 0..n}

\* Every dict over a subset of Names, in every insertion order.
DictsOver(V) ==
    {PyDict(items) : items \in
        {s \in SeqsUpTo(Names \X V, Cardinality(Names)) :
            \A i, j \in 1..Len(s) : i # j => s[i][1] # s[j][1]}}

ListsOver(V) == {PyList(s) : s \in SeqsUpTo(V, MaxCmds)}

Successes(V) == {PyTuple(<<c, s>>) : c \in ListsOver(V), s \in DictsOver(V)}

Failures == {PyNone, PyTuple(<<>>)}

ParseResults(V) == Successes(V) \cup Failures

(***************************************************************************)
(* The command line.  argv[1] is the script (sys.argv[0]).                 *)
(***************************************************************************)
Flags == {"true", "True", "TRUE", "1", "false", ""}

CommandLines ==
    {<<"main.py">>, <<"main.py", "m.mdl">>}
        \cup {<<"main.py", "m.mdl", f>> : f \in Flags}

\* sys.argv[i], defined when HasArg(i).
HasArg(i) == Len(argv) > i
Arg(i) == argv[i + 1]

(***************************************************************************)
(* json.dumps and pprint: the text each writes, as a sequence of tokens.   *)
(***************************************************************************)
RECURSIVE Serializable(_)
\* Whether json.dumps can encode x: it raises TypeError on the first value
\* that is none of dict, list, tuple, str, int, float, bool or None.
Serializable(x) ==
    CASE x.t \in {"int", "str", "None"} -> TRUE
      [] x.t \in {"list", "tuple"} ->
            \A i \in 1..Len(x.v) : Serializable(x.v[i])
      [] x.t = "dict" -> \A i \in 1..Len(x.v) : Serializable(x.v[i][2])
      [] OTHER -> FALSE

\* A string literal: the quote, the characters, the quote.
Quoted(q, s) == <<q, s, q>>

RECURSIVE Dumps(_)
RECURSIVE DumpsList(_, _)
RECURSIVE DumpsItems(_, _)
\* The elements of a list from index i on, separated by commas.
DumpsList(s, i) ==
    IF i > Len(s) THEN <<>>
    ELSE (IF i > 1 THEN <<",">> ELSE <<>>) \o Dumps(s[i]) \o DumpsList(s, i + 1)

\* The items of a dict from index i on, in insertion order.
DumpsItems(items, i) ==
    IF i > Len(items) THEN <<>>
    ELSE (IF i > 1 THEN <<",">> ELSE <<>>)
            \o Quoted("\"", items[i][1]) \o <<":">> \o Dumps(items[i][2])
            \o DumpsItems(items, i + 1)

\* Mutant of Dumps: the keys of a dict come in an order that changes from one
\* process to the next (dicts iterated in hash order, the hash seeded per
\* process).
DumpsHashOrder(x) ==
    CASE x.t = "int" -> <<x.v>>
      [] x.t = "str" -> Quoted("\"", x.v)
      [] x.t = "None" -> <<"null">>
      [] x.t \in {"list", "tuple"} -> <<"[">> \o DumpsList(x.v, 1) \o <<"]">>
      [] x.t = "dict" ->
            LET n == Len(x.v)
                items == IF run = 1 THEN x.v
                         ELSE [i \in 1..n |-> x.v[n + 1 - i]]
            IN <<"{">> \o DumpsItems(items, 1) \o <<"}">>

\* json.dumps(x) for a serializable x, with the default separators: an int as
\* its digits, a str in double quotes, a list or tuple as an array, a dict as
\* an object with its keys in insertion order.
Dumps(x) ==
    CASE x.t = "int" -> <<x.v>>
      [] x.t = "str" -> Quoted("\"", x.v)
      [] x.t = "None" -> <<"null">>
      [] x.t \in {"list", "tuple"} -> <<"[">> \o DumpsList(x.v, 1) \o <<"]">>
      [] x.t = "dict" -> <<"{">> \o DumpsItems(x.v, 1) \o <<"}">>

\* The order of str keys that pprint sorts a dict by.
KeyRank(k) ==
    CASE k = "commands" -> 1
      [] k = "symbols" -> 2
      [] k = "x" -> 3
      [] k = "y" -> 4

RECURSIVE SortItems(_)
\* The items of a dict sorted by key (an insertion sort).
SortItems(items) ==
    IF Len(items) <= 1 THEN items
    ELSE LET rest == SortItems(Tail(items))
             h == Head(items)
             lower == SelectSeq(rest, LAMBDA it : KeyRank(it[1]) < KeyRank(h[1]))
             upper == SelectSeq(rest, LAMBDA it : KeyRank(it[1]) >= KeyRank(h[1]))
         IN lower \o <<h>> \o upper

RECURSIVE PFormat(_)
RECURSIVE PFormatList(_, _)
RECURSIVE PFormatItems(_, _)
PFormatList(s, i) ==
    IF i > Len(s) THEN <<>>
    ELSE (IF i > 1 THEN <<",">> ELSE <<>>)
            \o PFormat(s[i]) \o PFormatList(s, i + 1)

PFormatItems(items, i) ==
    IF i > Len(items) THEN <<>>
    ELSE (IF i > 1 THEN <<",">> ELSE <<>>)
            \o Quoted("'", items[i][1]) \o <<":">> \o PFormat(items[i][2])
            \o PFormatItems(items, i + 1)

\* Mutant of PFormat: a str is written as str() gives it, without quotes.
PFormatStr(x) ==
    CASE x.t = "int" -> <<x.v>>
      [] x.t = "str" -> <<x.v>>
      [] x.t = "None" -> <<"None">>
      [] x.t = "object" -> <<"<object>">>
      [] x.t = "list" -> <<"[">> \o PFormatList(x.v, 1) \o <<"]">>
      [] x.t = "tuple" -> <<"(">> \o PFormatList(x.v, 1) \o <<")">>
      [] x.t = "dict" -> <<"{">> \o PFormatItems(SortItems(x.v), 1) \o <<"}">>

\* pprint.pformat(x): the repr of x (a str in single quotes), every dict with
\* its items sorted by key.  Line breaks and indentation are white space
\* between tokens and are not kept.
PFormat(x) ==
    CASE x.t = "int" -> <<x.v>>
      [] x.t = "str" -> Quoted("'", x.v)
      [] x.t = "None" -> <<"None">>
      [] x.t = "object" -> <<"<object>">>
      [] x.t = "list" -> <<"[">> \o PFormatList(x.v, 1) \o <<"]">>
      [] x.t = "tuple" -> <<"(">> \o PFormatList(x.v, 1) \o <<")">>
      [] x.t = "dict" -> <<"{">> \o PFormatItems(SortItems(x.v), 1) \o <<"}">>

(***************************************************************************)
(* Reading a rendering back: Loads(toks, q) is the value the token         *)
(* sequence toks denotes, q being the quote of its string literals.        *)
(***************************************************************************)
RECURSIVE ReadValue(_, _, _)
RECURSIVE ReadList(_, _, _, _)
RECURSIVE ReadItems(_, _, _, _)
\* The value that starts at token i, and the index of the token after it.
ReadValue(toks, i, q) ==
    CASE toks[i] = q -> [val |-> PyStr(toks[i + 1]), pos |-> i + 3]
      [] toks[i] = "[" -> ReadList(toks, i + 1, q, <<>>)
      [] toks[i] = "{" -> ReadItems(toks, i + 1, q, <<>>)
      [] OTHER -> [val |-> PyInt(toks[i]), pos |-> i + 1]

ReadList(toks, i, q, acc) ==
    CASE toks[i] = "]" -> [val |-> PyList(acc), pos |-> i + 1]
      [] toks[i] = "," -> ReadList(toks, i + 1, q, acc)
      [] OTHER -> LET r == ReadValue(toks, i, q)
                  IN ReadList(toks, r.pos, q, Append(acc, r.val))

ReadItems(toks, i, q, acc) ==
    CASE toks[i] = "}" -> [val |-> PyDict(acc), pos |-> i + 1]
      [] toks[i] = "," -> ReadItems(toks, i + 1, q, acc)
      [] OTHER -> LET r == ReadValue(toks, i + 4, q)
                  IN ReadItems(toks, r.pos, q,
                               Append(acc, <<toks[i + 1], r.val>>))

Loads(toks, q) == ReadValue(toks, 1, q).val

(***************************************************************************)
(* The script, statement by statement.                                     *)
(***************************************************************************)
\* Mutant of IsBound: commands and symbols are given a value (None) before
\* the if of line 9, so that every name is bound when it is read.
IsBoundAlways(name) == TRUE

\* A name of the module's namespace is bound once a statement has assigned
\* it; reading an unbound name raises NameError.
IsBound(name) == name \in bound

\* Line 12: the diagnostic of the else branch.
FailText == "Failed to parse"

\* Mutant of UnpackCommands: the pair unpacked the other way round.
UnpackCommandsSwapped(p) == p.v[2]

\* Line 10: (commands, symbols) = parsed.
UnpackCommands(p) == p.v[1]
UnpackSymbols(p) == p.v[2]

\* Mutant of WrapperItems: the document built without its "symbols" item.
WrapperItemsPartial(s, c) == <<<<"commands", c>>>>

\* Lines 14-17: the dict display, its items in the order written.
WrapperItems(s, c) == <<<<"symbols", s>>, <<"commands", c>>>>

\* Mutant of DebugMode: the flag compared without regard to case.
DebugModeLoose == Arg(2) \in {"true", "True", "TRUE"}

\* Line 22: sys.argv[2] == "true".
DebugMode == Arg(2) = "true"

\* print(text) and pprint.pprint(value) each write to standard output.
Printed(text) == [by |-> "print", text |-> text]
PPrinted(text) == [by |-> "pprint", text |-> text]

\* An uncaught exception raised by the statement at `line`: the interpreter
\* writes the traceback to standard error and exits with status 1.
Raise(type, line) ==
    /\ stderr' = Append(stderr, [type |-> type, line |-> line])
    /\ status' = 1
    /\ pc' = "exited"

\* Mutant of Follows: a failed parse is tried again.
FollowsRetry(l) ==
    CASE l = "l6" -> "l7"
      [] l = "l7" -> "l9"
      [] l = "l10" -> "l14"
      [] l = "l12" -> "l7"
      [] l = "l14" -> "l19"
      [] l = "l19" -> "l22"
      [] l = "l23" -> "end"

\* Mutant of Follows: lines 14-19 indented into the if branch, so that the
\* else branch falls through to the debug check of line 22.
FollowsIndented(l) ==
    CASE l = "l6" -> "l7"
      [] l = "l7" -> "l9"
      [] l = "l10" -> "l14"
      [] l = "l12" -> "l22"
      [] l = "l14" -> "l19"
      [] l = "l19" -> "l22"
      [] l = "l23" -> "end"

\* The statement control falls through to after the statement at label l
\* (l10 and l12 are the two branches of the if of line 9; "end" is the end of
\* the script).
Follows(l) ==
    CASE l = "l6" -> "l7"
      [] l = "l7" -> "l9"
      [] l = "l10" -> "l14"
      [] l = "l12" -> "l14"
      [] l = "l14" -> "l19"
      [] l = "l19" -> "l22"
      [] l = "l23" -> "end"

\* Control passes to label l; at the end of the script the interpreter exits
\* with status 0.
Goto(l) ==
    IF l = "end"
    THEN status' = 0 /\ pc' = "exited"
    ELSE status' = status /\ pc' = l

\* Line 6: mdl_file = sys.argv[1]
ReadPath ==
    /\ pc = "l6"
    /\ lines' = Append(lines, 6)
    /\ IF HasArg(1)
       THEN /\ mdl_file' = Arg(1)
            /\ bound' = bound \cup {"mdl_file"}
            /\ Goto(Follows("l6"))
            /\ UNCHANGED stderr
       ELSE /\ Raise("IndexError", 6)
            /\ UNCHANGED <<mdl_file, bound>>
    /\ UNCHANGED <<argv, mdlResult, parsed, commands, symbols, wrapper,
                   stdout, calls, run, prev>>

\* Line 7: parsed = mdl.parseFile(mdl_file)
ParseFile ==
    /\ pc = "l7"
    /\ lines' = Append(lines, 7)
    /\ calls' = calls + 1
    /\ parsed' = mdlResult
    /\ bound' = bound \cup {"parsed"}
    /\ Goto(Follows("l7"))
    /\ UNCHANGED <<argv, mdlResult, mdl_file, commands, symbols, wrapper,
                   stdout, stderr, run, prev>>

\* Lines 9-10: if parsed: (commands, symbols) = parsed
Unpack ==
    /\ pc = "l9"
    /\ Truthy(parsed)
    /\ lines' = Append(lines, 10)
    /\ commands' = UnpackCommands(parsed)
    /\ symbols' = UnpackSymbols(parsed)
    /\ bound' = bound \cup {"commands", "symbols"}
    /\ Goto(Follows("l10"))
    /\ UNCHANGED <<argv, mdlResult, mdl_file, parsed, wrapper, stdout,
                   stderr, calls, run, prev>>

\* Lines 9, 11-12: else: print("Failed to parse")
PrintFailed ==
    /\ pc = "l9"
    /\ ~Truthy(parsed)
    /\ lines' = Append(lines, 12)
    /\ stdout' = Append(stdout, Printed(<<FailText>>))
    /\ Goto(Follows("l12"))
    /\ UNCHANGED <<argv, mdlResult, bound, mdl_file, parsed, commands,
                   symbols, wrapper, stderr, calls, run, prev>>

\* Lines 14-17: wrapper = {"symbols": symbols, "commands": commands}
BuildWrapper ==
    /\ pc = "l14"
    /\ lines' = Append(lines, 14)
    /\ IF IsBound("symbols") /\ IsBound("commands")
       THEN /\ wrapper' = PyDict(WrapperItems(symbols, commands))
            /\ bound' = bound \cup {"wrapper"}
            /\ Goto(Follows("l14"))
            /\ UNCHANGED stderr
       ELSE /\ Raise("NameError", 14)
            /\ UNCHANGED <<wrapper, bound>>
    /\ UNCHANGED <<argv, mdlResult, mdl_file, parsed, commands, symbols,
                   stdout, calls, run, prev>>

\* Line 19: print(json.dumps(wrapper))
PrintDumps ==
    /\ pc = "l19"
    /\ lines' = Append(lines, 19)
    /\ IF Serializable(wrapper)
       THEN /\ stdout' = Append(stdout, Printed(Dumps(wrapper)))
            /\ Goto(Follows("l19"))
            /\ UNCHANGED stderr
       ELSE /\ Raise("TypeError", 19)
            /\ UNCHANGED stdout
    /\ UNCHANGED <<argv, mdlResult, bound, mdl_file, parsed, commands,
                   symbols, wrapper, calls, run, prev>>

\* Line 22: if sys.argv[2] == "true":
DebugCheck ==
    /\ pc = "l22"
    /\ lines' = Append(lines, 22)
    /\ IF ~HasArg(2)
       THEN Raise("IndexError", 22)
       ELSE /\ Goto(IF DebugMode THEN "l23" ELSE "end")
            /\ UNCHANGED stderr
    /\ UNCHANGED <<argv, mdlResult, bound, mdl_file, parsed, commands,
                   symbols, wrapper, stdout, calls, run, prev>>

\* Line 23: pprint.pprint(wrapper)
PPrint ==
    /\ pc = "l23"
    /\ lines' = Append(lines, 23)
    /\ stdout' = Append(stdout, PPrinted(PFormat(wrapper)))
    /\ Goto(Follows("l23"))
    /\ UNCHANGED <<argv, mdlResult, bound, mdl_file, parsed, commands,
                   symbols, wrapper, stderr, calls, run, prev>>

\* The program is invoked a second time with the same command line on the
\* unchanged file: a fresh process, the first one's output and exit status
\* kept aside for comparison.
Rerun ==
    /\ pc = "exited"
    /\ run = 1
    /\ run' = 2
    /\ prev' = [stdout |-> stdout, stderr |-> stderr, status |-> status]
    /\ pc' = "l6"
    /\ bound' = {}
    /\ mdl_file' = ""
    /\ parsed' = PyNone
    /\ commands' = PyNone
    /\ symbols' = PyNone
    /\ wrapper' = PyNone
    /\ stdout' = <<>>
    /\ stderr' = <<>>
    /\ status' = -1
    /\ calls' = 0
    /\ lines' = <<>>
    /\ UNCHANGED <<argv, mdlResult>>

\* A process at its start: no name bound, nothing written.  The values of
\* unbound names are placeholders that no statement reads.
ProcInit ==
    /\ pc = "l6"
    /\ bound = {}
    /\ mdl_file = ""
    /\ parsed = PyNone
    /\ commands = PyNone
    /\ symbols = PyNone
    /\ wrapper = PyNone
    /\ stdout = <<>>
    /\ stderr = <<>>
    /\ status = -1
    /\ calls = 0
    /\ lines = <<>>
    /\ run = 1
    /\ prev = [stdout |-> <<>>, stderr |-> <<>>, status |-> -1]

\* The parser keeps its contract: every value it returns is serializable.
Init ==
    /\ argv \in CommandLines
    /\ mdlResult \in ParseResults(ContractValues)
    /\ ProcInit

\* The parser may leak a value json cannot encode.
InitLeak ==
    /\ argv \in CommandLines
    /\ mdlResult \in ParseResults(LeakValues)
    /\ ProcInit

Next ==
    \/ ReadPath
    \/ ParseFile
    \/ Unpack
    \/ PrintFailed
    \/ BuildWrapper
    \/ PrintDumps
    \/ DebugCheck
    \/ PPrint

NextTwice == Next \/ Rerun

Spec == Init /\ [][Next]_vars

SpecLeak == InitLeak /\ [][Next]_vars

SpecTwice == Init /\ [][NextTwice]_vars

(***************************************************************************)
(* What the properties below speak of.                                     *)
(***************************************************************************)
Exited == pc = "exited"

\* The parser has returned, with a success or with a failure.
Success == calls > 0 /\ Truthy(parsed)
Failure == calls > 0 /\ ~Truthy(parsed)

\* A write that is the printed line of a JSON object, and one that is the
\* pretty rendering.
IsDocLine(w) == w.by = "print" /\ Head(w.text) = "{"
IsPretty(w) == w.by = "pprint"
IsDiagnostic(w) == w.by = "print" /\ w.text = <<"Failed to parse">>

DocWritten == \E i \in 1..Len(stdout) : IsDocLine(stdout[i])
PrettyWritten == \E i \in 1..Len(stdout) : IsPretty(stdout[i])

\* The keys of a dict, in order, and the value under a key.
Keys(d) == [i \in 1..Len(d.v) |-> d.v[i][1]]
KeySet(d) == {d.v[i][1] : i \in 1..Len(d.v)}
Lookup(d, k) == d.v[CHOOSE i \in 1..Len(d.v) : d.v[i][1] = k][2]

\* Two dicts that hold the same value under the same keys, in any order.
SameMapping(a, b) ==
    /\ a.t = "dict" /\ b.t = "dict"
    /\ Len(a.v) = Len(b.v)
    /\ KeySet(a) = KeySet(b)
    /\ \A k \in KeySet(a) : PyEq(Lookup(a, k), Lookup(b, k))

\* Two renderings read back to the same document: the same symbols, in any
\* order of the names, and the same commands in the same order.
SameDocument(a, b) ==
    /\ a.t = "dict" /\ b.t = "dict"
    /\ KeySet(a) = {"symbols", "commands"}
    /\ KeySet(b) = {"symbols", "commands"}
    /\ Len(a.v) = 2 /\ Len(b.v) = 2
    /\ SameMapping(Lookup(a, "symbols"), Lookup(b, "symbols"))
    /\ PyEq(Lookup(a, "commands"), Lookup(b, "commands"))

\* The line of the document the parser's result calls for: "symbols" with the
\* second component of the pair, then "commands" with the first.
CarriesResult(w) ==
    LET d == Loads(w.text, "\"")
    IN /\ Truthy(mdlResult)
       /\ d.t = "dict"
       /\ Keys(d) = <<"symbols", "commands">>
       /\ PyEq(d.v[1][2], mdlResult.v[2])
       /\ PyEq(d.v[2][2], mdlResult.v[1])

(***************************************************************************)
(* The properties.                                                         *)
(***************************************************************************)

\* C1: when the parser succeeds and the second argument is present and is not
\* "true", the run writes exactly one line to standard output, a JSON object
\* whose keys are exactly "symbols" and "commands", and exits with status 0.
C1_OneDocumentLine ==
    (Exited /\ Success /\ HasArg(2) /\ Arg(2) # "true") =>
        /\ Len(stdout) = 1
        /\ IsDocLine(stdout[1])
        /\ LET d == Loads(stdout[1].text, "\"")
           IN d.t = "dict" /\ Len(d.v) = 2
              /\ KeySet(d) = {"symbols", "commands"}
        /\ stderr = <<>>
        /\ status = 0

C1_Witness ==
    /\ Exited /\ Success /\ HasArg(2) /\ Arg(2) = "false"
    /\ Len(stdout) = 1 /\ status = 0
    /\ Len(commands.v) = 2 /\ Len(symbols.v) = 2

\* C2: when the parser returns a falsy result, whatever the second argument,
\* the run writes the line "Failed to parse", never writes a JSON document
\* (neither the compact line nor the pretty rendering) and exits with a
\* non-zero status.
C2_FailureDiagnosticOnly ==
    Failure =>
        /\ ~DocWritten /\ ~PrettyWritten
        /\ pc # "l9" => Len(stdout) = 1 /\ IsDiagnostic(stdout[1])
        /\ Exited => status > 0

C2_Witness ==
    /\ Exited /\ Failure /\ HasArg(2) /\ Arg(2) = "true"
    /\ Len(stdout) = 1 /\ IsDiagnostic(stdout[1]) /\ status = 1

\* C3: when the second argument is absent the run ends with a usage error
\* before the parser is invoked: the parser is never called, no document is
\* written and the exit status is non-zero.
C3_UsageErrorBeforeParse ==
    ~HasArg(2) =>
        /\ calls = 0
        /\ ~DocWritten
        /\ Exited => status > 0

\* C4: after a successful parse with the debug flag "true", the first thing
\* written is the compact document line that the parser's result calls for
\* (the line of a run without the flag), the pretty rendering is written
\* after it and reads back to the same document; the pretty rendering is
\* never written before or without the compact line.
C4_PrettyAfterCompact ==
    /\ \A i \in 1..Len(stdout) :
          IsPretty(stdout[i]) =>
              /\ i = 2
              /\ IsDocLine(stdout[1]) /\ CarriesResult(stdout[1])
              /\ SameDocument(Loads(stdout[i].text, "'"),
                              Loads(stdout[1].text, "\""))
    /\ (Exited /\ Success /\ HasArg(2) /\ Arg(2) = "true") =>
          /\ Len(stdout) = 2
          /\ IsDocLine(stdout[1]) /\ CarriesResult(stdout[1])
          /\ IsPretty(stdout[2])

C4_Witness ==
    /\ Exited /\ Success /\ HasArg(2) /\ Arg(2) = "true"
    /\ Len(stdout) = 2 /\ IsPretty(stdout[2])
    /\ Keys(symbols) = <<"y", "x">>
    /\ \E i \in 1..Len(commands.v) : commands.v[i].t = "str"

\* C5: after a successful parse with the second argument present, the pretty
\* rendering is written if and only if the argument is exactly "true"; with
\* any other string the run writes none and still exits with status 0.
C5_DebugFlagExact ==
    (Exited /\ Success /\ HasArg(2)) =>
        /\ PrettyWritten <=> Arg(2) = "true"
        /\ status = 0

C5_Witness ==
    /\ Exited /\ Success /\ HasArg(2) /\ Arg(2) = "TRUE"
    /\ ~PrettyWritten /\ status = 0

\* C6: every document line written carries the parser's result unmodified:
\* its keys are "symbols" then "commands", the value under "symbols" is the
\* second component of the parser's pair and the value under "commands" the
\* first, the commands in their order; no document with one key only.
C6_DocumentCarriesResult ==
    /\ \A i \in 1..Len(stdout) : IsDocLine(stdout[i]) => CarriesResult(stdout[i])
    /\ (Success /\ pc \in {"l22", "l23"}) => DocWritten

C6_Witness ==
    /\ DocWritten
    /\ Len(mdlResult.v[1].v) = 2
    /\ mdlResult.v[1].v[1] # mdlResult.v[1].v[2]
    /\ Keys(mdlResult.v[2]) = <<"y", "x">>

\* C7: when the parser succeeds with a value that json cannot encode, the
\* error is caught (no uncaught exception ends the run) and reported as a
\* serialization error, "Failed to parse" is not written, no document line
\* is written and the exit status is non-zero.
C7_SerializationErrorCaught ==
    (Exited /\ Success /\ ~Serializable(parsed)) =>
        /\ stderr = <<>>
        /\ \E i \in 1..Len(stdout) :
              stdout[i].by = "print" /\ ~IsDiagnostic(stdout[i])
        /\ \A i \in 1..Len(stdout) : ~IsDiagnostic(stdout[i])
        /\ ~DocWritten
        /\ status > 0

C9_NoRetry ==
    /\ calls <= 1
    /\ (Exited /\ HasArg(1)) => calls = 1
    /\ Failure => ~DocWritten /\ status # 0
    /\ Cardinality({i \in 1..Len(stdout) : IsDiagnostic(stdout[i])}) <= 1
    /\ Len(stderr) <= 1

C9_Witness ==
    /\ Exited /\ Failure /\ calls = 1
    /\ Len(stderr) = 1 /\ Len(stdout) = 1

\* C10, as stated: after a parser failure with argument 2 absent the run goes
\* on, without building the wrapper, to the debug check of line 22 and ends
\* there with an out-of-range access.
C10_EndsAtDebugCheck ==
    (Exited /\ Failure /\ ~HasArg(2)) =>
        /\ ~IsBound("wrapper")
        /\ stderr = <<[type |-> "IndexError", line |-> 22]>>
        /\ lines[Len(lines)] = 22

\* C10, amended: after a parser failure, whether or not argument 2 is given,
\* the run ends at the wrapper construction of line 14 with a NameError (the
\* name symbols is unbound); the wrapper is not built and the debug check of
\* line 22 is never reached.
C10_EndsAtWrapper ==
    /\ (Exited /\ Failure) =>
          /\ ~IsBound("wrapper")
          /\ stderr = <<[type |-> "NameError", line |-> 14]>>
          /\ lines[Len(lines)] = 14
    /\ Failure => \A i \in 1..Len(lines) : lines[i] # 22

C10_Witness ==
    /\ Exited /\ Failure /\ ~HasArg(2)
    /\ stderr = <<[type |-> "NameError", line |-> 14]>>

====
